---- MODULE Spec2Model ----
(***************************************************************************)
(* Holdings reconciliation and valuation history of the portfolio backend  *)
(* (src/backend): the transaction ledger, update_holdings, the manual and  *)
(* tool write paths, and get_valuation_history.                            *)
(*                                                                         *)
(* Python floats are modelled as exact rationals <<numerator, denominator>>*)
(* in lowest terms (denominator > 0), so a/b*b = a holds exactly; binary   *)
(* rounding error of float64 is outside the model.                         *)
(* Time is counted in ticks; TicksPerDay ticks make one calendar day and   *)
(* tick D*TicksPerDay is midnight (00:00) of day D.                        *)
(* Descriptive metadata (stock_name, isin, exchange, status) is a constant *)
(* function of the symbol on the modelled write paths and is left out.     *)
(***************************************************************************)
EXTENDS Integers, Sequences, FiniteSets, TLC

\* ------------------------------------------------------------------ bounds
MaxTx == 3
MaxOps == 4
MaxQty == 2
MaxValue == 2
MaxTime == 2
TicksPerDay == 2
MaxClose == 1

Symbols == {"X", "Y"}
TxTypes == {"BUY", "SELL"}
Quantities == 1..MaxQty
Values == 1..MaxValue
OrderIds == 1..MaxTx

VARIABLES txs, holdings, now, nops, req

vars == <<txs, holdings, now, nops, req>>

\* --------------------------------------------------- rationals (float model)
Abs(x) == IF x < 0 THEN -x ELSE x

RECURSIVE GCD(_, _)
GCD(a, b) == IF b = 0 THEN a ELSE GCD(b, a % b)

\* n/d with d # 0, in lowest terms with a positive denominator
Rat(n, d) ==
    LET sn == IF d < 0 THEN -n ELSE n
        sd == Abs(d)
        g  == GCD(Abs(sn), sd)
    IN  IF sn = 0 THEN <<0, 1>> ELSE <<sn \div g, sd \div g>>

RInt(n) == <<n, 1>>
RAdd(a, b) == Rat(a[1] * b[2] + b[1] * a[2], a[2] * b[2])
RSub(a, b) == Rat(a[1] * b[2] - b[1] * a[2], a[2] * b[2])
RMul(a, b) == Rat(a[1] * b[1], a[2] * b[2])
RDiv(a, b) == Rat(a[1] * b[2], a[2] * b[1])
RLt(a, b) == a[1] * b[2] < b[1] * a[2]

\* ------------------------------------------------------------ the ledger
NoHolding == [quantity |-> -1]
NoEntry == [current_quantity |-> -1]

\* datetime -> calendar day, and midnight of a calendar day
DayOf(t) == t \div TicksPerDay
Midnight(d) == d * TicksPerDay

\* One Transaction row
Transaction(order_id, symbol, type, quantity, price, execution_time) ==
    [order_id |-> order_id, symbol |-> symbol, type |-> type,
     quantity |-> quantity, price |-> price, execution_time |-> execution_time]

\* --------------------------------------------------------- update_holdings
\* First sight of a symbol: the dictionary entry
NewEntry(tx) ==
    [current_quantity |-> 0, total_buy_quantity |-> 0, total_buy_value |-> RInt(0),
     last_transaction_date |-> tx.execution_time]

\* Variant: the price field read as a unit price
ApplyTx_UnitPrice(e, tx) ==
    LET d == IF tx.execution_time > e.last_transaction_date
             THEN [e EXCEPT !.last_transaction_date = tx.execution_time]
             ELSE e
    IN  IF tx.type = "BUY"
        THEN [d EXCEPT !.current_quantity = @ + tx.quantity,
                       !.total_buy_quantity = @ + tx.quantity,
                       !.total_buy_value = RAdd(@, RInt(tx.quantity * tx.price))]
        ELSE IF tx.type = "SELL"
        THEN [d EXCEPT !.current_quantity =
                           IF @ - tx.quantity < 0 THEN 0 ELSE @ - tx.quantity]
        ELSE d

\* Variant: a SELL subtracts without the floor at zero
ApplyTx_NoClamp(e, tx) ==
    LET d == IF tx.execution_time > e.last_transaction_date
             THEN [e EXCEPT !.last_transaction_date = tx.execution_time]
             ELSE e
    IN  IF tx.type = "BUY"
        THEN [d EXCEPT !.current_quantity = @ + tx.quantity,
                       !.total_buy_quantity = @ + tx.quantity,
                       !.total_buy_value = RAdd(@, RInt(tx.price))]
        ELSE IF tx.type = "SELL"
        THEN [d EXCEPT !.current_quantity = @ - tx.quantity]
        ELSE d

\* Variant: last_transaction_date is the time of the row read last
ApplyTx_DateOfLastRow(e, tx) ==
    LET d == [e EXCEPT !.last_transaction_date = tx.execution_time]
    IN  IF tx.type = "BUY"
        THEN [d EXCEPT !.current_quantity = @ + tx.quantity,
                       !.total_buy_quantity = @ + tx.quantity,
                       !.total_buy_value = RAdd(@, RInt(tx.price))]
        ELSE IF tx.type = "SELL"
        THEN [d EXCEPT !.current_quantity =
                           IF @ - tx.quantity < 0 THEN 0 ELSE @ - tx.quantity]
        ELSE d

\* The loop body for one transaction on the symbol's entry
ApplyTx(e, tx) ==
    LET d == IF tx.execution_time > e.last_transaction_date
             THEN [e EXCEPT !.last_transaction_date = tx.execution_time]
             ELSE e
    IN  IF tx.type = "BUY"
        THEN [d EXCEPT !.current_quantity = @ + tx.quantity,
                       !.total_buy_quantity = @ + tx.quantity,
                       !.total_buy_value = RAdd(@, RInt(tx.price))]
        ELSE IF tx.type = "SELL"
        THEN [d EXCEPT !.current_quantity =
                           IF @ - tx.quantity < 0 THEN 0 ELSE @ - tx.quantity]
        ELSE d

\* holdings_dict after the loop over the rows in storage order
RECURSIVE HoldingsDict(_)
HoldingsDict(t) ==
    IF t = <<>> THEN [s \in Symbols |-> NoEntry]
    ELSE LET n    == Len(t)
             prev == HoldingsDict(SubSeq(t, 1, n - 1))
             tx   == t[n]
             e    == IF prev[tx.symbol] = NoEntry THEN NewEntry(tx) ELSE prev[tx.symbol]
         IN  [prev EXCEPT ![tx.symbol] = ApplyTx(e, tx)]

\* Variant: the buy value averaged over the units still held
AvgPrice_PerHeldUnit(data) ==
    IF data.current_quantity > 0
    THEN RDiv(data.total_buy_value, RInt(data.current_quantity))
    ELSE RInt(0)

\* avg_price of an entry
AvgPrice(data) ==
    IF data.total_buy_quantity > 0
    THEN RDiv(data.total_buy_value, RInt(data.total_buy_quantity))
    ELSE RInt(0)

\* Variant: total_invested as the lifetime amount bought
HoldingRow_LifetimeInvested(data) ==
    [quantity |-> data.current_quantity,
     avg_price |-> AvgPrice(data),
     total_invested |-> data.total_buy_value,
     last_transaction_date |-> data.last_transaction_date]

\* Variant: total_invested priced on the units bought, not the units held
HoldingRow_InvestedOnUnitsBought(data) ==
    [quantity |-> data.current_quantity,
     avg_price |-> AvgPrice(data),
     total_invested |-> RMul(RInt(data.total_buy_quantity), AvgPrice(data)),
     last_transaction_date |-> data.last_transaction_date]

\* The Holding row written for an entry whose current_quantity > 0
HoldingRow(data) ==
    [quantity |-> data.current_quantity,
     avg_price |-> AvgPrice(data),
     total_invested |-> RMul(RInt(data.current_quantity), AvgPrice(data)),
     last_transaction_date |-> data.last_transaction_date]

\* Whether update_holdings writes the symbol's row
WritesRow(data) == data # NoEntry /\ data.current_quantity > 0

\* The Holding table after update_holdings on ledger t and table h
UpdateHoldings(t, h) ==
    LET dict == HoldingsDict(t)
    IN  [s \in Symbols |-> IF WritesRow(dict[s]) THEN HoldingRow(dict[s]) ELSE h[s]]

\* ---------------------------------------------------- get_valuation_history
\* round(x, 2): the nearest hundredth, an exact tie going to the even one
Round2(r) ==
    LET n100 == 100 * r[1]
        q    == n100 \div r[2]
        rem  == n100 % r[2]
        k    == IF 2 * rem < r[2] THEN q
                ELSE IF 2 * rem > r[2] THEN q + 1
                ELSE IF q % 2 = 0 THEN q ELSE q + 1
    IN  Rat(k, 100)

\* The price oracle (yf.download): it raises, or returns a table of daily closes
\* with NaN where a symbol has no close. Rows exist for start <= day < end only.
NaN == -1
MaxDay == MaxTime \div TicksPerDay
OracleDays == 0..(MaxDay - 1)
Closes == 1..MaxClose
PriceTables == [Symbols -> [OracleDays -> Closes \cup {NaN}]]
NoTable == [s \in Symbols |-> [d \in OracleDays |-> NaN]]
Oracles == {[ok |-> FALSE, close |-> NoTable]} \cup {[ok |-> TRUE, close |-> c] : c \in PriceTables}

\* min of df_tx['execution_time']
MinTime(t) == CHOOSE m \in {t[i].execution_time : i \in 1..Len(t)} :
                  \A i \in 1..Len(t) : m <= t[i].execution_time

\* The close of symbol on current_date: the row's value, else the last valid
\* value at or before it, else 0 (resample('D').ffill() and the dropna fallback)
PriceOn(close, symbol, current_date, start_day, end_day) ==
    LET valid == {d \in OracleDays : /\ start_day <= d
                                     /\ d < end_day
                                     /\ d <= current_date
                                     /\ close[symbol][d] # NaN}
    IN  IF valid = {} THEN 0
        ELSE close[symbol][CHOOSE d \in valid : \A e \in valid : e <= d]

\* past_tx: the rows with execution_time <= current_date (a midnight timestamp)
PastTx(t, current_date) ==
    SelectSeq(t, LAMBDA tx : tx.execution_time <= Midnight(current_date))

\* The historian's loop body for one row of the symbol
HistApply(acc, tx) ==
    IF tx.type = "BUY"
    THEN [qty |-> acc.qty + tx.quantity,
          sym_invested |-> RAdd(acc.sym_invested, RInt(tx.price))]
    ELSE [qty |-> acc.qty - tx.quantity,
          sym_invested |->
              IF acc.qty > 0
              THEN RMul(acc.sym_invested,
                        RSub(RInt(1), RDiv(RInt(tx.quantity), RInt(acc.qty))))
              ELSE acc.sym_invested]

\* qty and sym_invested after the loop over the symbol's rows
RECURSIVE HistFold(_)
HistFold(t) ==
    IF t = <<>> THEN [qty |-> 0, sym_invested |-> RInt(0)]
    ELSE HistApply(HistFold(SubSeq(t, 1, Len(t) - 1)), t[Len(t)])

SymTx(t, symbol) == SelectSeq(t, LAMBDA tx : tx.symbol = symbol)

\* sum of f[s] over a set of symbols (rationals)
RECURSIVE RSum(_, _)
RSum(f, S) ==
    IF S = {} THEN RInt(0)
    ELSE LET s == CHOOSE x \in S : TRUE IN RAdd(f[s], RSum(f, S \ {s}))

\* total_invested of current_date before rounding
DayInvested(t, current_date) ==
    LET past == PastTx(t, current_date)
    IN  RSum([s \in Symbols |-> HistFold(SymTx(past, s)).sym_invested], Symbols)

\* total_valuation of current_date before rounding
DayValuation(t, current_date, close, start_day, end_day) ==
    LET past == PastTx(t, current_date)
        val(s) == LET a == HistFold(SymTx(past, s))
                  IN  IF a.qty > 0
                      THEN RInt(a.qty * PriceOn(close, s, current_date, start_day, end_day))
                      ELSE RInt(0)
    IN  RSum([s \in Symbols |-> val(s)], Symbols)

\* Variant: the timeline stops the day before today
get_valuation_history_ExclusiveEnd(t, clock, oracle) ==
    IF t = <<>> THEN <<>>
    ELSE LET start_day == DayOf(MinTime(t))
             end_day   == DayOf(clock)
         IN  IF ~oracle.ok \/ end_day < start_day THEN <<>>
             ELSE [i \in 1..(end_day - start_day) |->
                     LET current_date == start_day + i - 1
                     IN  [date |-> current_date,
                          invested_value |-> Round2(DayInvested(t, current_date)),
                          market_value |-> Round2(DayValuation(t, current_date,
                                               oracle.close, start_day, end_day))]]

\* Variant: a failed download is treated as a table without prices
get_valuation_history_ZeroOnFailure(t, clock, oracle) ==
    IF t = <<>> THEN <<>>
    ELSE LET start_day == DayOf(MinTime(t))
             end_day   == DayOf(clock)
         IN  IF end_day < start_day THEN <<>>
             ELSE [i \in 1..(end_day - start_day + 1) |->
                     LET current_date == start_day + i - 1
                     IN  [date |-> current_date,
                          invested_value |-> Round2(DayInvested(t, current_date)),
                          market_value |-> IF oracle.ok
                                           THEN Round2(DayValuation(t, current_date,
                                                    oracle.close, start_day, end_day))
                                           ELSE Round2(RInt(0))]]

\* The list get_valuation_history returns at time clock
get_valuation_history(t, clock, oracle) ==
    IF t = <<>> THEN <<>>
    ELSE LET start_day == DayOf(MinTime(t))
             end_day   == DayOf(clock)
         IN  IF ~oracle.ok \/ end_day < start_day THEN <<>>
             ELSE [i \in 1..(end_day - start_day + 1) |->
                     LET current_date == start_day + i - 1
                     IN  [date |-> current_date,
                          invested_value |-> Round2(DayInvested(t, current_date)),
                          market_value |-> Round2(DayValuation(t, current_date,
                                               oracle.close, start_day, end_day))]]

\* ------------------------------------------------------------------ actions
\* txs: the transaction table in rowid order; holdings: the holding table
\* (NoHolding where a symbol has no row); now: the wall clock in ticks;
\* nops: the number of ledger changes committed so far (bounds the exploration).
\* req: the write requests in flight, one slot per server thread.
MaxRequests == 2
Requests == 1..MaxRequests

\* A thread's slot: where its request stands (pc), the rows update_holdings
\* read (transactions), whether it found the Holding row it looked up first
\* (found), and what the last request changed and replied.
IdleSlot(kind, symbol, order_id, reply) ==
    [pc |-> "idle", kind |-> kind, symbol |-> symbol, order_id |-> order_id,
     reply |-> reply, transactions |-> <<>>, found |-> FALSE]

Init ==
    /\ txs = <<>>
    /\ holdings = [s \in Symbols |-> NoHolding]
    /\ now = 0
    /\ nops = 0
    /\ req = [r \in Requests |-> IdleSlot("none", "", 0, "none")]

\* One more committed ledger change
Committed ==
    /\ nops < MaxOps
    /\ nops' = nops + 1

\* The wall clock advances
Tick ==
    /\ now < MaxTime
    /\ now' = now + 1
    /\ UNCHANGED <<txs, holdings, nops, req>>

\* The ledger after add_manual_transaction stored its row, stamped datetime.now()
LedgerAfterAdd(t, symbol, tx_type, quantity, price, order_id, clock) ==
    Append(t, Transaction(order_id, symbol, tx_type, quantity, price, clock))

\* add_manual_transaction; order_id is the random draw
add_manual_transaction(symbol, tx_type, quantity, price, order_id) ==
    /\ Len(txs) < MaxTx
    /\ txs' = LedgerAfterAdd(txs, symbol, tx_type, quantity, price, order_id, now)
    /\ holdings' = UpdateHoldings(txs', holdings)
    /\ Committed
    /\ UNCHANGED <<now, req>>

\* Indices of the rows a query matches, and the ledger without a set of rows
MatchOrder(t, order_id) == {i \in 1..Len(t) : t[i].order_id = order_id}
MatchSymbol(t, symbol) == {i \in 1..Len(t) : t[i].symbol = symbol}
First(I) == CHOOSE i \in I : \A j \in I : i <= j

RECURSIVE Without(_, _)
Without(t, I) ==
    IF t = <<>> THEN <<>>
    ELSE LET n == Len(t)
             rest == Without(SubSeq(t, 1, n - 1), I)
         IN  IF n \in I THEN rest ELSE Append(rest, t[n])

\* The ledger after the first row with this order id is deleted
LedgerAfterDelete(t, order_id) == Without(t, {First(MatchOrder(t, order_id))})

\* Variant: only the first row of the symbol is deleted
LedgerAfterDeleteSymbol_FirstOnly(t, symbol) == Without(t, {First(MatchSymbol(t, symbol))})

\* The ledger after every row of the symbol is deleted
LedgerAfterDeleteSymbol(t, symbol) == Without(t, MatchSymbol(t, symbol))

\* Variant: a missing row is answered like a deleted one
delete_transaction_status_AlwaysOk(t, order_id) == 200

\* The HTTP status of DELETE /transactions/{order_id} on ledger t
delete_transaction_status(t, order_id) ==
    IF MatchOrder(t, order_id) = {} THEN 404 ELSE 200

\* DELETE /transactions/{order_id}: 404 when no row matches
delete_transaction(order_id) ==
    IF MatchOrder(txs, order_id) = {}
    THEN UNCHANGED vars
    ELSE /\ txs' = LedgerAfterDelete(txs, order_id)
         /\ holdings' = UpdateHoldings(txs', holdings)
         /\ Committed
         /\ UNCHANGED <<now, req>>

NoOrderId == 0
NoSymbol == ""

\* What the assistant's delete tool returns on ledger t; the message is the
\* f-string as its pieces. With neither argument msg is unbound at the return
\* and the handler's except turns that into an error.
delete_transaction_tool_reply(t, order_id, symbol) ==
    IF order_id # NoOrderId
    THEN IF MatchOrder(t, order_id) = {}
         THEN [status |-> "error", message |-> <<"Transaction not found.">>]
         ELSE [status |-> "success", message |-> <<"Transaction ", ToString(order_id), " deleted.">>]
    ELSE IF symbol # NoSymbol
    THEN IF MatchSymbol(t, symbol) = {}
         THEN [status |-> "error", message |-> <<"No transactions found.">>]
         ELSE [status |-> "success",
               message |-> <<"All transactions for ", symbol, " deleted.">>]
    ELSE [status |-> "error", message |-> <<"Deletion failed: ", "msg">>]

\* The assistant's delete tool: by order id, else by symbol
delete_transaction_tool(order_id, symbol) ==
    IF order_id # NoOrderId
    THEN IF MatchOrder(txs, order_id) = {}
         THEN UNCHANGED vars
         ELSE /\ txs' = LedgerAfterDelete(txs, order_id)
              /\ holdings' = UpdateHoldings(txs', holdings)
              /\ Committed
              /\ UNCHANGED <<now, req>>
    ELSE IF symbol # NoSymbol
    THEN IF MatchSymbol(txs, symbol) = {}
         THEN UNCHANGED vars
         ELSE /\ txs' = LedgerAfterDeleteSymbol(txs, symbol)
              /\ holdings' = UpdateHoldings(txs', holdings)
              /\ Committed
              /\ UNCHANGED <<now, req>>
    ELSE \* neither given: commit and update_holdings run, then msg is unbound
         /\ holdings' = UpdateHoldings(txs, holdings)
         /\ UNCHANGED <<txs, now, nops, req>>

\* GET /valuation-history: a read; its reply is ValuationHistory(oracle)
ValuationHistory(oracle) == get_valuation_history(txs, now, oracle)

valuation_history(oracle) ==
    /\ ValuationHistory(oracle) \in Seq([date : Int, invested_value : Int \X Int,
                                          market_value : Int \X Int])
    /\ UNCHANGED vars

\* -------------------------------------------------- get_historical_holdings
\* The loop body of the assistant's history tool on a symbol's entry: a BUY
\* adds quantity * price to total_cost; a SELL subtracts the quantity and keeps
\* the cost in the ratio new / old quantity, or drops it when nothing is left
HistoricalApply(acc, tx) ==
    IF tx.type = "BUY"
    THEN [quantity |-> acc.quantity + tx.quantity,
          total_cost |-> RAdd(acc.total_cost, RInt(tx.quantity * tx.price))]
    ELSE IF tx.type = "SELL"
    THEN LET q == acc.quantity - tx.quantity
         IN  [quantity |-> q,
              total_cost |-> IF q > 0
                             THEN RMul(acc.total_cost, Rat(q, q + tx.quantity))
                             ELSE RInt(0)]
    ELSE acc

RECURSIVE HistoricalFold(_)
HistoricalFold(t) ==
    IF t = <<>> THEN [quantity |-> 0, total_cost |-> RInt(0)]
    ELSE HistoricalApply(HistoricalFold(SubSeq(t, 1, Len(t) - 1)), t[Len(t)])

\* The holdings list of get_historical_holdings for a date, by symbol
\* (NoHolding where the list has no row of the symbol)
get_historical_holdings(t, target_date) ==
    LET past == PastTx(t, target_date)
    IN  [s \in Symbols |->
            LET data == HistoricalFold(SymTx(past, s))
            IN  IF data.quantity > 0
                THEN [quantity |-> data.quantity,
                      avg_cost |-> Round2(RDiv(data.total_cost, RInt(data.quantity))),
                      total_invested |-> Round2(data.total_cost)]
                ELSE NoHolding]

\* The tool called for a date: a read
historical_holdings(target_date) ==
    /\ \A s \in Symbols :
          LET row == get_historical_holdings(txs, target_date)[s]
          IN  row = NoHolding \/ row.quantity > 0
    /\ UNCHANGED vars

\* ----------------------------------------------------------- specifications
\* The ledger and its reconciliation: every write path, within one clock tick
\* (update_holdings reads execution_time only for last_transaction_date).
\* The 16-digit random order id: every draw not yet stored is interchangeable,
\* so the least unused id stands for a draw that does not collide.
FreshIds(t) == LET free == {i \in OrderIds : MatchOrder(t, i) = {}}
               IN  IF free = {} THEN {} ELSE {First(free)}

NextLedger ==
    \/ \E s \in Symbols, ty \in TxTypes, q \in Quantities, v \in Values, id \in FreshIds(txs) :
          add_manual_transaction(s, ty, q, v, id)
    \/ \E id \in OrderIds : delete_transaction(id)
    \/ \E id \in OrderIds \cup {NoOrderId}, s \in Symbols \cup {NoSymbol} :
          delete_transaction_tool(id, s)

SpecLedger == Init /\ [][NextLedger]_vars

\* The valuation history over ledgers built as the clock advances. The historian
\* never reads order_id, so the draw is pinned to one id here.
HistIds == {1}

NextHist ==
    \/ Tick
    \/ \E s \in Symbols, ty \in TxTypes, q \in Quantities, v \in Values, id \in HistIds :
          add_manual_transaction(s, ty, q, v, id)
    \/ \E o \in Oracles : valuation_history(o)
    \/ \E d \in 0..MaxDay : historical_holdings(d)

SpecHist == Init /\ [][NextHist]_vars

\* ------------------------------------------------ write requests, by steps
\* A write request runs in its own thread and session. Its ledger change is one
\* commit; update_holdings then reads the transaction table and, in a later
\* commit, writes the Holding rows computed from what it read.

\* The symbol whose Holding row update_holdings looks up first: the first one,
\* in the order the dict was filled, that has current_quantity > 0
WrittenAt(t) == {i \in 1..Len(t) : WritesRow(HoldingsDict(t)[t[i].symbol])}
FirstWritten(t) == IF WrittenAt(t) = {} THEN NoSymbol ELSE t[First(WrittenAt(t))].symbol

\* add_manual_transaction up to its commit of the new row
StartAdd(r, symbol, tx_type, quantity, price, order_id) ==
    /\ req[r].pc = "idle"
    /\ Len(txs) < MaxTx
    /\ txs' = LedgerAfterAdd(txs, symbol, tx_type, quantity, price, order_id, now)
    /\ req' = [req EXCEPT ![r] = [IdleSlot("add", symbol, order_id, "none") EXCEPT !.pc = "committed"]]
    /\ Committed
    /\ UNCHANGED <<holdings, now>>

\* delete_transaction up to its commit of the deletion; 404 when no row matches
StartDelete(r, order_id) ==
    /\ req[r].pc = "idle"
    /\ IF MatchOrder(txs, order_id) = {}
       THEN UNCHANGED vars
       ELSE /\ txs' = LedgerAfterDelete(txs, order_id)
            /\ req' = [req EXCEPT ![r] =
                          [IdleSlot("delete", txs[First(MatchOrder(txs, order_id))].symbol,
                                    order_id, "none") EXCEPT !.pc = "committed"]]
            /\ Committed
            /\ UNCHANGED <<holdings, now>>

\* update_holdings reads the transaction table, fills holdings_dict and looks
\* up the first Holding row it is going to write
ReadLedger(r) ==
    /\ req[r].pc = "committed"
    /\ req' = [req EXCEPT ![r] =
                  [@ EXCEPT !.pc = "read",
                            !.transactions = txs,
                            !.found = /\ FirstWritten(txs) # NoSymbol
                                      /\ holdings[FirstWritten(txs)] # NoHolding]]
    /\ UNCHANGED <<txs, holdings, now, nops>>

\* The INSERT of a row that another session has stored since the lookup fails
InsertConflict(slot, h) ==
    LET first == FirstWritten(slot.transactions)
    IN  first # NoSymbol /\ ~slot.found /\ h[first] # NoHolding

\* update_holdings flushes and commits its rows; the request replies
WriteHoldings(r) ==
    /\ req[r].pc = "read"
    /\ IF InsertConflict(req[r], holdings)
       THEN /\ holdings' = holdings
            /\ req' = [req EXCEPT ![r] = IdleSlot(@.kind, @.symbol, @.order_id, "error")]
       ELSE /\ holdings' = UpdateHoldings(req[r].transactions, holdings)
            /\ req' = [req EXCEPT ![r] = IdleSlot(@.kind, @.symbol, @.order_id, "success")]
    /\ UNCHANGED <<txs, now, nops>>

\* The interleavings do not depend on the amounts paid: one value is drawn.
StepValues == {1}

NextSteps ==
    \E r \in Requests :
        \/ \E s \in Symbols, ty \in TxTypes, q \in Quantities, v \in StepValues, id \in FreshIds(txs) :
              StartAdd(r, s, ty, q, v, id)
        \/ \E id \in OrderIds : StartDelete(r, id)
        \/ ReadLedger(r)
        \/ WriteHoldings(r)

SpecSteps == Init /\ [][NextSteps]_vars

\* ------------------------------------------------ unvalidated order input
\* What the order tool hands to add_manual_transaction: any upper-cased string
\* as the kind and any integer as the quantity.
RawTypes == TxTypes \cup {"HOLD"}
RawQuantities == (0 - 1)..MaxQty

NextRaw ==
    \E s \in Symbols, ty \in RawTypes, q \in RawQuantities, v \in Values, id \in FreshIds(txs) :
        add_manual_transaction(s, ty, q, v, id)

SpecRaw == Init /\ [][NextRaw]_vars

\* ------------------------------------------------------------ GET /holdings
\* The live quote source (yf.download, period 1d): it raises, or returns for
\* each symbol its last close, NaN where it has none.
LiveOracles ==
    {[ok |-> FALSE, last |-> [s \in Symbols |-> NaN]]}
        \cup {[ok |-> TRUE, last |-> q] : q \in [Symbols -> Closes \cup {NaN}]}

\* None, for a symbol without a price
NoPrice == -1

\* get_real_time_prices: a price or None per requested symbol
get_real_time_prices(symbols, oracle) ==
    [s \in symbols |-> IF oracle.ok /\ oracle.last[s] # NaN THEN oracle.last[s] ELSE NoPrice]

StoredSymbols(h) == {s \in Symbols : h[s] # NoHolding}

\* The stored Holding rows as the list the query returns, as the response model
\* renders each: the declared fields of Holding
RECURSIVE HoldingList(_, _)
HoldingList(h, S) ==
    IF S = {} THEN <<>>
    ELSE LET s == CHOOSE x \in S : TRUE
         IN  <<[symbol |-> s,
                quantity |-> h[s].quantity,
                avg_price |-> h[s].avg_price,
                total_invested |-> h[s].total_invested,
                last_transaction_date |-> h[s].last_transaction_date]>>
             \o HoldingList(h, S \ {s})

\* The reply of get_holdings on table h. Holding declares no current_price,
\* current_valuation or last_updated_at, so the first assignment for a priced
\* symbol raises and the request ends in a server error with nothing written.
HoldingsReply(h, oracle) ==
    IF StoredSymbols(h) = {} THEN [status |-> 200, body |-> <<>>]
    ELSE LET live_prices == get_real_time_prices(StoredSymbols(h), oracle)
         IN  IF \E s \in StoredSymbols(h) : live_prices[s] # NoPrice
             THEN [status |-> 500, body |-> <<>>]
             ELSE [status |-> 200, body |-> HoldingList(h, StoredSymbols(h))]

\* A variant in which the valuation of a priced Holding lands in a stored column
HoldingsAfterGet_StoresValuation(h, oracle) ==
    LET live_prices == get_real_time_prices(StoredSymbols(h), oracle)
    IN  [s \in Symbols |->
            IF h[s] # NoHolding /\ live_prices[s] # NoPrice
            THEN [h[s] EXCEPT !.total_invested = RInt(live_prices[s] * h[s].quantity)]
            ELSE h[s]]

\* The Holding table after GET /holdings on table h. With a price for a stored
\* symbol the handler raises at the first overlay assignment and never reaches
\* session.commit(); without one, no object was touched or added and the
\* commit has nothing to flush. The handler assigns no declared field.
HoldingsAfterGet(h, oracle) ==
    LET live_prices == get_real_time_prices(StoredSymbols(h), oracle)
    IN  [s \in Symbols |->
            IF h[s] # NoHolding /\ live_prices[s] # NoPrice
            THEN h[s]
            ELSE h[s]]

\* GET /holdings: a read; its reply is HoldingsReply(holdings, oracle)
get_holdings(oracle) ==
    /\ HoldingsReply(holdings, oracle).status \in {200, 500}
    /\ holdings' = HoldingsAfterGet(holdings, oracle)
    /\ UNCHANGED <<txs, now, nops, req>>

NextHoldings ==
    \/ \E s \in Symbols, ty \in TxTypes, q \in Quantities, v \in Values, id \in FreshIds(txs) :
          add_manual_transaction(s, ty, q, v, id)
    \/ \E o \in LiveOracles : get_holdings(o)

SpecHoldings == Init /\ [][NextHoldings]_vars

\* ------------------------------------------------------------ ingest_excel
\* An order file: its rows after the header, each with the columns the code
\* reads. Orders of the file carry their own execution time, at or before now.
MaxRows == 2
FileSymbols == {"X"}
FileQuantities == {1}
FileValues == {1}
FileTimes == {0 - 1, 0}
FileIds == 1..MaxRows
FileRows ==
    [order_id : FileIds, symbol : FileSymbols, type : TxTypes,
     quantity : FileQuantities, price : FileValues, execution_time : FileTimes,
     status : {"Executed"}]
    \cup [order_id : FileIds, symbol : FileSymbols, type : {"BUY"},
          quantity : FileQuantities, price : FileValues, execution_time : {0},
          status : {"Cancelled"}]
Files == UNION {[1..n -> FileRows] : n \in 0..MaxRows}

\* df[df['status'] == 'Executed']
ExecutedRows(file) == SelectSeq(file, LAMBDA row : row.status = "Executed")

\* Variant: a row is stored whether or not its order id is already there
RECURSIVE LedgerAfterIngest_NoSkip(_, _)
LedgerAfterIngest_NoSkip(t, rows) ==
    IF rows = <<>> THEN t
    ELSE LET n   == Len(rows)
             row == rows[n]
             acc == LedgerAfterIngest_NoSkip(t, SubSeq(rows, 1, n - 1))
         IN  Append(acc, Transaction(row.order_id, row.symbol, row.type,
                                     row.quantity, row.price, row.execution_time))

\* The ledger after the loop over the rows: a row whose order id is already
\* stored, or was added earlier in this loop, is skipped
RECURSIVE LedgerAfterIngest(_, _)
LedgerAfterIngest(t, rows) ==
    IF rows = <<>> THEN t
    ELSE LET n   == Len(rows)
             row == rows[n]
             acc == LedgerAfterIngest(t, SubSeq(rows, 1, n - 1))
         IN  IF MatchOrder(acc, row.order_id) # {} THEN acc
             ELSE Append(acc, Transaction(row.order_id, row.symbol, row.type,
                                          row.quantity, row.price, row.execution_time))

\* ingest_excel on one file
ingest_excel(file) ==
    LET ledger == LedgerAfterIngest(txs, ExecutedRows(file))
    IN  /\ Len(ledger) <= MaxTx
        /\ txs' = ledger
        /\ holdings' = UpdateHoldings(ledger, holdings)
        /\ IF ledger = txs THEN UNCHANGED nops ELSE Committed
        /\ UNCHANGED <<now, req>>

\* Files, manual orders whose random id may be one already stored, deletions
NextIngest ==
    \/ \E file \in Files : ingest_excel(file)
    \/ \E s \in Symbols, ty \in TxTypes, q \in FileQuantities, v \in FileValues, id \in OrderIds :
          add_manual_transaction(s, ty, q, v, id)
    \/ \E id \in OrderIds : delete_transaction(id)

SpecIngest == Init /\ [][NextIngest]_vars

\* ------------------------------------------------- the section 4.2 reference
\* The reconciler fold the design states: BUY adds quantity and value; SELL
\* scales the cost by the unsold fraction and floors the quantity at zero.
CanonApply(acc, tx) ==
    IF tx.type = "BUY"
    THEN [running_quantity |-> acc.running_quantity + tx.quantity,
          running_cost |-> RAdd(acc.running_cost, RInt(tx.price))]
    ELSE LET sold == IF tx.quantity < acc.running_quantity
                     THEN tx.quantity ELSE acc.running_quantity
         IN  [running_quantity |-> IF acc.running_quantity - tx.quantity < 0
                                   THEN 0 ELSE acc.running_quantity - tx.quantity,
              running_cost |->
                  IF acc.running_quantity > 0
                  THEN RMul(acc.running_cost,
                            RSub(RInt(1), RDiv(RInt(sold), RInt(acc.running_quantity))))
                  ELSE acc.running_cost]

RECURSIVE CanonFold(_)
CanonFold(t) ==
    IF t = <<>> THEN [running_quantity |-> 0, running_cost |-> RInt(0)]
    ELSE CanonApply(CanonFold(SubSeq(t, 1, Len(t) - 1)), t[Len(t)])

\* The step appended one row to the ledger
Recorded == Len(txs') = Len(txs) + 1 /\ SubSeq(txs', 1, Len(txs)) = txs
LastTx(t) == t[Len(t)]

RECURSIVE SumQuantity(_)
SumQuantity(t) == IF t = <<>> THEN 0 ELSE t[Len(t)].quantity + SumQuantity(SubSeq(t, 1, Len(t) - 1))
RECURSIVE SumValue(_)
SumValue(t) == IF t = <<>> THEN 0 ELSE t[Len(t)].price + SumValue(SubSeq(t, 1, Len(t) - 1))
OnlyBuys(t) == \A i \in 1..Len(t) : t[i].type = "BUY"

\* sum of total_invested over the stored Holding rows
HoldingsInvested ==
    RSum([s \in Symbols |-> IF holdings[s] = NoHolding THEN RInt(0)
                            ELSE holdings[s].total_invested], Symbols)

\* ------------------------------------------------------------------ claims
\* C1: for every symbol whose net quantity is > 0 the stored Holding equals the
\* section 4.2 fold over the symbol's transactions (quantity, avg = cost /
\* quantity, total_invested = cost), also when a BUY follows a SELL.
C1_HoldingEqualsFold ==
    \A s \in Symbols :
        LET a == CanonFold(SymTx(txs, s))
        IN  a.running_quantity > 0 =>
                /\ holdings[s] # NoHolding
                /\ holdings[s].quantity = a.running_quantity
                /\ holdings[s].avg_price = RDiv(a.running_cost, RInt(a.running_quantity))
                /\ holdings[s].total_invested = a.running_cost

\* C2: when a recorded SELL reduces the symbol's quantity to exactly zero, no
\* Holding row of the symbol exists once the operation has completed.
C2_SellToZeroRemovesHolding ==
    [][\A s \in Symbols :
          ( /\ Recorded
            /\ LastTx(txs').symbol = s
            /\ LastTx(txs').type = "SELL"
            /\ CanonFold(SymTx(txs, s)).running_quantity = LastTx(txs').quantity )
          => holdings'[s] = NoHolding]_vars

\* C3: when a deletion (by order id or by symbol) removes the last remaining
\* transaction(s) of a symbol, the symbol's Holding row no longer exists.
C3_DeletingLastTxRemovesHolding ==
    [][\A s \in Symbols :
          (SymTx(txs, s) # <<>> /\ SymTx(txs', s) = <<>>) => holdings'[s] = NoHolding]_vars

\* C4: a symbol whose transactions are all BUYs has a Holding with quantity =
\* sum of the buy quantities, avg_price = sum of values / sum of quantities and
\* total_invested = sum of the buy values.
C4_BuyOnlyHolding ==
    \A s \in Symbols :
        LET st == SymTx(txs, s)
        IN  (st # <<>> /\ OnlyBuys(st)) =>
                /\ holdings[s] # NoHolding
                /\ holdings[s].quantity = SumQuantity(st)
                /\ holdings[s].avg_price = Rat(SumValue(st), SumQuantity(st))
                /\ holdings[s].total_invested = RInt(SumValue(st))

\* two BUYs of one symbol at different unit costs, reconciled
C4_Witness ==
    \E s \in Symbols :
        LET st == SymTx(txs, s)
        IN  /\ Len(st) = 2 /\ OnlyBuys(st)
            /\ st[1].quantity # st[2].quantity
            /\ Rat(st[1].price, st[1].quantity) # Rat(st[2].price, st[2].quantity)
            /\ holdings[s] # NoHolding
            /\ holdings[s].quantity = SumQuantity(st)

\* C5: recording a SELL that leaves the symbol with quantity > 0 does not
\* change the Holding's avg_price.
C5_SellKeepsAvgPrice ==
    [][\A s \in Symbols :
          ( /\ Recorded
            /\ LastTx(txs').symbol = s
            /\ LastTx(txs').type = "SELL"
            /\ CanonFold(SymTx(txs', s)).running_quantity > 0 )
          => /\ holdings[s] # NoHolding
             /\ holdings'[s] # NoHolding
             /\ holdings'[s].avg_price = holdings[s].avg_price]_vars

\* a SELL was recorded last, units remain, and the row shows the reduced quantity
C5_Witness ==
    \E s \in Symbols :
        LET st == SymTx(txs, s)
        IN  /\ txs # <<>> /\ LastTx(txs).symbol = s /\ LastTx(txs).type = "SELL"
            /\ Len(st) >= 2
            /\ CanonFold(st).running_quantity > 0
            /\ holdings[s] # NoHolding
            /\ holdings[s].quantity = CanonFold(st).running_quantity
            /\ holdings[s].quantity < SumQuantity(SelectSeq(st, LAMBDA tx : tx.type = "BUY"))

\* C6: BUYs building Q units at cost basis C followed by a SELL of q < Q units
\* give quantity Q - q and total_invested = C * (1 - q/Q), whatever the SELL's
\* own value.
C6_PartialSellProportional ==
    \A s \in Symbols :
        LET st == SymTx(txs, s)
            n  == Len(st)
            buys == SubSeq(st, 1, n - 1)
            Q  == SumQuantity(buys)
            C  == SumValue(buys)
        IN  (n >= 2 /\ OnlyBuys(buys) /\ st[n].type = "SELL" /\ st[n].quantity < Q) =>
                /\ holdings[s] # NoHolding
                /\ holdings[s].quantity = Q - st[n].quantity
                /\ holdings[s].avg_price = Rat(C, Q)
                /\ holdings[s].total_invested =
                       RMul(RInt(C), RSub(RInt(1), Rat(st[n].quantity, Q)))

\* a BUY then a partial SELL whose own value differs from the cost removed
C6_Witness ==
    \E s \in Symbols :
        LET st == SymTx(txs, s)
        IN  /\ Len(st) = 2 /\ st[1].type = "BUY" /\ st[2].type = "SELL"
            /\ st[2].quantity < st[1].quantity
            /\ RInt(st[2].price) # RMul(RInt(st[1].price), Rat(st[2].quantity, st[1].quantity))
            /\ holdings[s] # NoHolding
            /\ holdings[s].quantity = st[1].quantity - st[2].quantity

\* The fields of a Position the claims compare
Position(h) == IF h = NoHolding THEN NoHolding
               ELSE [quantity |-> h.quantity, avg_price |-> h.avg_price,
                     total_invested |-> h.total_invested]

\* C7: in every reachable state, deleting a stored transaction and re-adding an
\* identical one (same symbol, kind, quantity, value, timestamp; the order id
\* is drawn anew) restores the symbol's Position.
C7_DeleteReAddRestores ==
    \A i \in 1..Len(txs) : \A id \in OrderIds :
        LET t        == txs[i]
            ledgerD  == LedgerAfterDelete(txs, t.order_id)
            holdingD == UpdateHoldings(ledgerD, holdings)
            ledgerA  == LedgerAfterAdd(ledgerD, t.symbol, t.type, t.quantity, t.price, id, now)
            holdingA == UpdateHoldings(ledgerA, holdingD)
        IN  (t.execution_time = now /\ First(MatchOrder(txs, t.order_id)) = i) =>
                Position(holdingA[t.symbol]) = Position(holdings[t.symbol])

\* C8: the invested_value of the last entry of the valuation history equals
\* (to the cent) the sum of total_invested over the stored Holdings.
C8_FinalInvestedEqualsHoldings ==
    \A o \in Oracles :
        LET h == ValuationHistory(o)
        IN  h # <<>> => h[Len(h)].invested_value = Round2(HoldingsInvested)

\* The days of the history's timeline
Timeline == IF txs = <<>> THEN {} ELSE DayOf(MinTime(txs))..DayOf(now)

\* C9: for every day D and symbol, the historian's quantity and cost basis as
\* of D equal the section 4.2 fold on the same transactions (oversell clamped,
\* so never negative).
C9_HistorianFoldIsReconcilerFold ==
    \A D \in Timeline : \A s \in Symbols :
        LET past == SymTx(PastTx(txs, D), s)
            a == HistFold(past)
            c == CanonFold(past)
        IN  /\ a.qty = c.running_quantity
            /\ a.sym_invested = c.running_cost
            /\ a.qty >= 0
            /\ ~RLt(a.sym_invested, RInt(0))

\* invested value over the transactions executed on calendar days up to D
InvestedThroughDay(t, D) ==
    LET past == SelectSeq(t, LAMBDA tx : DayOf(tx.execution_time) <= D)
    IN  RSum([s \in Symbols |-> HistFold(SymTx(past, s)).sym_invested], Symbols)

\* C10: a transaction executed at any time of calendar day D is replayed in
\* D's entry and in every later one: each entry's invested_value is the replay
\* of all transactions of calendar days <= its date.
C10_EntryIncludesItsDay ==
    \A o \in Oracles :
        LET h == ValuationHistory(o)
        IN  \A k \in 1..Len(h) :
                h[k].invested_value = Round2(InvestedThroughDay(txs, h[k].date))

\* the most recent close of the symbol on or before day D among the days that
\* have closed by today, 0 when there is none
MostRecentClose(close, symbol, D, today) ==
    LET days == {d \in OracleDays : d <= D /\ d < today /\ close[symbol][d] # NaN}
    IN  IF days = {} THEN 0
        ELSE close[symbol][CHOOSE d \in days : \A e \in days : e <= d]

\* the section 4.2 quantity of a symbol over the transactions of calendar days <= D
QuantityAsOf(t, symbol, D) ==
    CanonFold(SymTx(SelectSeq(t, LAMBDA tx : DayOf(tx.execution_time) <= D),
                    symbol)).running_quantity

\* C11: each entry's market_value is the sum over symbols of (quantity as of
\* its day D) times the most recent close on or before D (forward fill), a
\* symbol without any such close counting 0.
C11_MarketValueForwardFilled ==
    \A o \in Oracles :
        LET h == ValuationHistory(o)
        IN  \A k \in 1..Len(h) :
                h[k].market_value =
                    Round2(RSum([s \in Symbols |->
                                    RInt(QuantityAsOf(txs, s, h[k].date)
                                         * MostRecentClose(o.close, s, h[k].date, DayOf(now)))],
                                Symbols))

\* C12: for a non-empty ledger and a download that succeeds, the history has
\* exactly one entry per calendar day from the day of the earliest transaction
\* through today inclusive, in ascending order without gap or duplicate.
C12_OneEntryPerDay ==
    \A o \in Oracles :
        LET h == ValuationHistory(o)
            first == DayOf(MinTime(txs))
        IN  (txs # <<>> /\ o.ok) =>
                /\ Len(h) = DayOf(now) - first + 1
                /\ \A k \in 1..Len(h) : h[k].date = first + k - 1

\* the earliest transaction is of an earlier day than today: two entries
C12_Witness ==
    /\ txs # <<>>
    /\ DayOf(MinTime(txs)) < DayOf(now)
    /\ \E o \in Oracles :
          /\ o.ok
          /\ Len(ValuationHistory(o)) = 2
          /\ ValuationHistory(o)[2].date = DayOf(now)

\* C13: when the download of historical prices fails for the whole range, the
\* history is the empty sequence: no entry with made-up or zero values.
C13_FetchFailureGivesEmpty ==
    \A o \in Oracles : ~o.ok => ValuationHistory(o) = <<>>

\* a ledger whose history is non-empty with prices and empty without them
C13_Witness ==
    /\ txs # <<>>
    /\ \E o \in Oracles : o.ok /\ ValuationHistory(o) # <<>>
    /\ \E o \in Oracles : ~o.ok /\ ValuationHistory(o) = <<>>

\* every request has replied
Quiescent == \A r \in Requests : req[r].pc = "idle"

\* the symbol's Holding row is what update_holdings leaves on the stored ledger
Reconciled(symbol) == holdings[symbol] = UpdateHoldings(txs, holdings)[symbol]

\* C14: two ledger mutations of one symbol, however their steps interleave, do
\* not lose an update: once both have replied the symbol's Holding is the
\* reconciliation of the ledger that holds both mutations.
C14_NoLostUpdateSameSymbol ==
    \A r1, r2 \in Requests :
        ( /\ Quiescent /\ r1 # r2
          /\ req[r1].kind # "none" /\ req[r2].kind # "none"
          /\ req[r1].symbol = req[r2].symbol )
        => Reconciled(req[r1].symbol)

\* C15: mutations of two different symbols do not interfere: once both have
\* replied, each symbol's Holding is the reconciliation of the stored ledger.
C15_DifferentSymbolsIndependent ==
    \A r1, r2 \in Requests :
        ( /\ Quiescent /\ r1 # r2
          /\ req[r1].kind # "none" /\ req[r2].kind # "none"
          /\ req[r1].symbol # req[r2].symbol )
        => Reconciled(req[r1].symbol) /\ Reconciled(req[r2].symbol)

\* C16: a write request is all-or-nothing: when it replies with a failure its
\* ledger change is not stored (an added row is absent, a deleted row is still
\* there), so no committed ledger change is left without its reconciliation.
C16_WriteAllOrNothing ==
    [][\A r \in Requests :
          (req[r].pc # "idle" /\ req'[r].pc = "idle" /\ req'[r].reply = "error")
          => IF req[r].kind = "add"
             THEN MatchOrder(txs', req[r].order_id) = {}
             ELSE MatchOrder(txs', req[r].order_id) # {}]_vars

\* C17: every stored Transaction has quantity > 0 and kind BUY or SELL: an
\* order with quantity <= 0 or another kind is rejected and nothing is stored.
C17_StoredTransactionsValid ==
    \A i \in 1..Len(txs) : txs[i].quantity > 0 /\ txs[i].type \in {"BUY", "SELL"}

\* C18: a SELL of more units than are held (also one before any BUY) is stored
\* like any other; the quantity is floored at zero from there on, so no stored
\* Holding has a negative quantity and units bought later count in full.
C18_OversellClampedAtZero ==
    \A s \in Symbols :
        LET c == CanonFold(SymTx(txs, s)).running_quantity
        IN  /\ holdings[s] # NoHolding => holdings[s].quantity >= 0
            /\ c > 0 => (holdings[s] # NoHolding /\ holdings[s].quantity = c)

\* a SELL stored before any BUY of the symbol, then a BUY held in full
C18_Witness ==
    \E s \in Symbols :
        LET st == SymTx(txs, s)
        IN  /\ Len(st) = 2 /\ st[1].type = "SELL" /\ st[2].type = "BUY"
            /\ holdings[s] # NoHolding
            /\ holdings[s].quantity = st[2].quantity

\* the price get_holdings obtained for a row of its reply
PriceOf(row, oracle) ==
    get_real_time_prices(StoredSymbols(holdings), oracle)[row.symbol]

\* C19: whatever the quote source returns, get_holdings replies normally with
\* every stored Holding exactly once, and a row whose symbol got a price
\* carries current_valuation = quantity * price.
C19_EveryHoldingReturnedAndValued ==
    \A o \in LiveOracles :
        LET reply == HoldingsReply(holdings, o)
        IN  /\ reply.status = 200
            /\ \A s \in StoredSymbols(holdings) :
                  Cardinality({k \in 1..Len(reply.body) : reply.body[k].symbol = s}) = 1
            /\ \A k \in 1..Len(reply.body) :
                  PriceOf(reply.body[k], o) # NoPrice =>
                      /\ "current_valuation" \in DOMAIN reply.body[k]
                      /\ reply.body[k].current_valuation
                             = RInt(reply.body[k].quantity * PriceOf(reply.body[k], o))

\* C20: a returned Holding whose symbol got no price carries current_valuation
\* equal to its total_invested.
C20_UnpricedFallsBackToCost ==
    \A o \in LiveOracles :
        LET reply == HoldingsReply(holdings, o)
        IN  \A k \in 1..Len(reply.body) :
                PriceOf(reply.body[k], o) = NoPrice =>
                    /\ "current_valuation" \in DOMAIN reply.body[k]
                    /\ reply.body[k].current_valuation = reply.body[k].total_invested

\* C21: a deletion whose order id matches no stored transaction reports
\* not-found (404 from the endpoint, status error from the tool) and the step
\* leaves the ledger and every Holding as they were.
C21_DeleteMissingIsNotFound ==
    [][\A id \in OrderIds :
          MatchOrder(txs, id) = {} =>
              /\ delete_transaction_status(txs, id) = 404
              /\ delete_transaction_tool_reply(txs, id, NoSymbol).status = "error"
              /\ (delete_transaction(id) \/ delete_transaction_tool(id, NoSymbol))
                     => (txs' = txs /\ holdings' = holdings)]_vars

\* a ledger with a Holding, and an order id that no stored row carries
C21_Witness ==
    /\ txs # <<>>
    /\ \E s \in Symbols : holdings[s] # NoHolding
    /\ \E id \in OrderIds :
          /\ MatchOrder(txs, id) = {}
          /\ delete_transaction_status(txs, id) = 404

\* C22: after the delete tool has deleted by symbol S (a success), the ledger
\* holds no transaction of S and every transaction of every other symbol is
\* still there, unchanged and in the same order.
C22_DeleteBySymbolFrame ==
    [][\A S \in Symbols :
          ( /\ MatchSymbol(txs, S) # {}
            /\ delete_transaction_tool_reply(txs, NoOrderId, S).status = "success"
            /\ delete_transaction_tool(NoOrderId, S) )
          => /\ SymTx(txs', S) = <<>>
             /\ SelectSeq(txs', LAMBDA tx : tx.symbol # S)
                    = SelectSeq(txs, LAMBDA tx : tx.symbol # S)]_vars

\* three rows were added, two of one symbol, and one deletion removed both of
\* them: the other symbol's row is what the ledger holds
C22_Witness ==
    /\ nops = 4 /\ Len(txs) = 1
    /\ \E S \in Symbols :
          /\ SymTx(txs, S) = <<>>
          /\ holdings[S] # NoHolding
          /\ holdings[txs[1].symbol] # NoHolding

\* C23: deleting all transactions of a symbol that has n of them succeeds and
\* the result states n (after two BUYs: 'All 2 transactions ...').
C23_BulkDeleteReportsCount ==
    \A S \in Symbols :
        LET n == Cardinality(MatchSymbol(txs, S))
            reply == delete_transaction_tool_reply(txs, NoOrderId, S)
        IN  n > 0 =>
                /\ reply.status = "success"
                /\ \E i \in 1..Len(reply.message) : reply.message[i] = ToString(n)

\* C24: no two stored Transactions share an order_id (so a deletion by order
\* id identifies exactly one row): a manual order gets an id that no stored
\* row carries, and a file row with a stored id is not stored again.
C24_OrderIdsUnique ==
    \A id \in OrderIds : Cardinality(MatchOrder(txs, id)) <= 1

\* C25: every stored Holding has total_invested = quantity * avg_price, the
\* cost of the units held now and not the lifetime amount bought.
C25_InvestedIsQuantityTimesAvg ==
    \A s \in Symbols :
        holdings[s] # NoHolding =>
            holdings[s].total_invested = RMul(RInt(holdings[s].quantity), holdings[s].avg_price)

\* units were bought and part of them sold: the Holding's total_invested is
\* below the amount bought
C25_Witness ==
    \E s \in Symbols :
        LET st == SymTx(txs, s)
        IN  /\ Len(st) = 2 /\ st[1].type = "BUY" /\ st[2].type = "SELL"
            /\ st[2].quantity < st[1].quantity
            /\ holdings[s] # NoHolding
            /\ holdings[s].quantity = st[1].quantity - st[2].quantity
            /\ RLt(holdings[s].total_invested, RInt(st[1].price))

\* the latest execution_time of a non-empty list of transactions
RECURSIVE LatestTime(_)
LatestTime(t) ==
    IF Len(t) = 1 THEN t[1].execution_time
    ELSE LET m == LatestTime(SubSeq(t, 1, Len(t) - 1))
         IN  IF t[Len(t)].execution_time > m THEN t[Len(t)].execution_time ELSE m

\* C26: a Holding that update_holdings writes (the symbol has units) carries as
\* last_transaction_date the latest execution_time among the symbol's stored
\* transactions, also after the most recent of them has been deleted.
C26_LastDateIsLatestStored ==
    \A s \in Symbols :
        CanonFold(SymTx(txs, s)).running_quantity > 0 =>
            /\ holdings[s] # NoHolding
            /\ holdings[s].last_transaction_date = LatestTime(SymTx(txs, s))

\* the symbol's latest transaction is not the one stored last, and the Holding
\* carries its time
C26_Witness ==
    \E s \in Symbols :
        LET st == SymTx(txs, s)
        IN  /\ Len(st) >= 2
            /\ st[Len(st)].execution_time < LatestTime(st)
            /\ holdings[s] # NoHolding
            /\ CanonFold(st).running_quantity > 0
            /\ holdings[s].last_transaction_date = LatestTime(st)

\* the same rows in another storage order
Reorderings(t) ==
    {[i \in 1..Len(t) |-> t[f[i]]] :
        f \in {g \in [1..Len(t) -> 1..Len(t)] : \A i, j \in 1..Len(t) : g[i] = g[j] => i = j}}

\* no two rows carry the same execution_time
DistinctTimes(t) ==
    \A i, j \in 1..Len(t) : t[i].execution_time = t[j].execution_time => i = j

\* the Holding table update_holdings builds from nothing on ledger t
HoldingsOf(t) == UpdateHoldings(t, [s \in Symbols |-> NoHolding])

\* C27: the Holdings depend on the set of stored transactions only, not on
\* their storage order (the replay goes by execution time): the stored rows in
\* any other order give the same Holdings, also when an oversell is clamped.
C27_StorageOrderIrrelevant ==
    DistinctTimes(txs) => \A t \in Reorderings(txs) : HoldingsOf(t) = HoldingsOf(txs)

\* C28: for every date d, get_historical_holdings(d) lists for each symbol the
\* quantity and total_invested of the section 4.2 fold over the transactions
\* with execution_time <= d (BUY adds the price field, the order's total value),
\* and lists no symbol whose quantity by that fold is zero.
C28_HistoricalHoldingsAreCanonical ==
    \A d \in 0..MaxDay : \A s \in Symbols :
        LET c   == CanonFold(SymTx(PastTx(txs, d), s))
            row == get_historical_holdings(txs, d)[s]
        IN  IF c.running_quantity > 0
            THEN /\ row # NoHolding
                 /\ row.quantity = c.running_quantity
                 /\ row.total_invested = Round2(c.running_cost)
            ELSE row = NoHolding

\* C29: ingesting a file again changes nothing: in every reachable state, after
\* a file has been ingested, ingesting the same file once more stores no
\* further transaction (rows with a stored order id are skipped, also a second
\* row with the same id inside the file) and leaves every Holding as it is.
C29_IngestIdempotent ==
    \A file \in Files :
        LET ledger1   == LedgerAfterIngest(txs, ExecutedRows(file))
            holdings1 == UpdateHoldings(ledger1, holdings)
            ledger2   == LedgerAfterIngest(ledger1, ExecutedRows(file))
            holdings2 == UpdateHoldings(ledger2, holdings1)
        IN  /\ ledger2 = ledger1
            /\ holdings2 = holdings1
            /\ \A id \in FileIds :
                  Cardinality(MatchOrder(ledger1, id)) <= 1 + Cardinality(MatchOrder(txs, id))

\* the ledger is what ingesting a file with two different Executed rows of one
\* order id leaves: the first of them, once, with its Holding
C29_Witness ==
    \E file \in Files :
        /\ Len(ExecutedRows(file)) = 2
        /\ file[1].order_id = file[2].order_id
        /\ file[1] # file[2]
        /\ file[1].type = "BUY"
        /\ txs = LedgerAfterIngest(<<>>, ExecutedRows(file))
        /\ Len(txs) = 1
        /\ holdings["X"] # NoHolding
        /\ holdings["X"].quantity = file[1].quantity

\* C30: get_holdings, whatever the price source returns, leaves the ledger as
\* it is and changes no Holding's quantity, avg_price, total_invested or
\* last_transaction_date, and it creates and removes no Holding.
C30_GetHoldingsFrame ==
    [][\A o \in LiveOracles :
          get_holdings(o)
          => /\ txs' = txs
             /\ \A s \in Symbols :
                   /\ (holdings'[s] = NoHolding) <=> (holdings[s] = NoHolding)
                   /\ holdings[s] # NoHolding
                      => /\ holdings'[s].quantity = holdings[s].quantity
                         /\ holdings'[s].avg_price = holdings[s].avg_price
                         /\ holdings'[s].total_invested = holdings[s].total_invested
                         /\ holdings'[s].last_transaction_date
                                = holdings[s].last_transaction_date]_vars

\* two Holdings are stored, and a read can find a price for one of them and
\* none for the other
C30_Witness ==
    /\ \A s \in Symbols : holdings[s] # NoHolding
    /\ \E o \in LiveOracles :
          /\ get_real_time_prices(StoredSymbols(holdings), o)["X"] # NoPrice
          /\ get_real_time_prices(StoredSymbols(holdings), o)["Y"] = NoPrice
          /\ HoldingsReply(holdings, o).status = 500
          /\ HoldingsAfterGet(holdings, o) = holdings

====
